---- MODULE Spec2Model ----
(***************************************************************************)
(* Model of the websocket hub of rs-song-request-server: the coordinator   *)
(* actor WebsocketServerActor (src/src/websocket_server_actor.rs), the     *)
(* session actors WebsocketSessionActor it delivers to                     *)
(* (src/src/websocket_session_actor.rs), and the HTTP handlers that change *)
(* the shared playlist map the coordinator reads (src/src/http_routes.rs). *)
(* Every message handler, frame handler, timer callback and HTTP handler   *)
(* is one action; its arguments are drawn from small sets.                 *)
(*                                                                         *)
(*   Spec          the coordinator's handlers on arguments of any value    *)
(*   SpecHttp      the HTTP handlers, their broadcasts, the coordinator    *)
(*   SpecSession   sessions, their frames and commands, the coordinator    *)
(*   SpecSnapshot  the HTTP mutations and the snapshots their broadcasts   *)
(*                 deliver                                                 *)
(*   SpecHeartbeat one session with the clock running                      *)
(***************************************************************************)
EXTENDS Integers, Sequences, FiniteSets, TLC

\* ------------------------------------------------------------------ bounds
\* Session ids are `usize` values drawn by the random number generator; the
\* model draws them from 0..MaxSessionId (0 is a value gen::<usize>() can
\* return, and it is also the value the handlers pass as "skip nobody").
MaxSessionId == 2
\* Number of session actors (websocket connections) that ever exist.
MaxSessions == 2

SessionIds == 0..MaxSessionId
Actors == 1..MaxSessions
RoomNames == {"r1", "r2"}
Messages == {"hello"}

\* ------------------------------------------------------------------ state
VARIABLES
    recipients_by_session_id,  \* HashMap<usize, Recipient>: id -> actor
    session_ids_by_room_name,  \* HashMap<String, HashSet<usize>>
    app_state,                 \* song_requests_by_user_id: user -> playlist
    actor_state,               \* per session actor: "unstarted", "connecting",
                               \*   "active", "listing", "stopped"
    panicked,                  \* a coordinator handler has panicked (unwrap on Err)
    last,                      \* the handler that ran last, its arguments and effects
    mutex_poisoned,            \* Mutex<AppState>: a holder panicked with the lock held
    mailbox,                   \* messages sent to the coordinator, not yet handled
    session,                   \* per session actor: the fields of WebsocketSessionActor
    next_tick,                 \* per session actor: when its heartbeat interval fires next
    instant_now,               \* Instant::now()
    inbox,                     \* per session actor: WebsocketReplyMessages not yet handled
    wrote,                     \* per session actor: frames written to the peer in this step
    closed_by,                 \* per session actor: what made it stop, "" while it runs
    snapshot                   \* per session actor: the last playlist snapshot a
                               \*   Broadcast enqueued to its sink, recorded in
                               \*   SpecSnapshot; [kind |-> "none"] before the first

\* The coordinator's own state and the record of its last handler.
coordinator_vars == <<recipients_by_session_id, session_ids_by_room_name,
                      panicked, last>>
\* What only the HTTP handlers and the session actors change.
http_vars == <<mutex_poisoned, mailbox, snapshot>>
session_vars == <<session, next_tick, instant_now, inbox, wrote, closed_by>>

vars == <<recipients_by_session_id, session_ids_by_room_name, app_state,
          actor_state, panicked, last, mutex_poisoned, mailbox, session,
          next_tick, instant_now, inbox, wrote, closed_by, snapshot>>

\* Nothing was enqueued to any session.
NoSent == [a \in Actors |-> <<>>]

\* The record of one step; every field is present in every record.
Step(op) ==
    [op |-> op, session_id |-> 0, room_name |-> "", actor |-> 0,
     sent |-> NoSent, room_names |-> <<>>, panic |-> FALSE,
     removed |-> FALSE, again |-> FALSE,
     payload |-> [kind |-> "none"], enqueued |-> 0, song |-> "", index |-> 0,
     frame |-> "", text |-> <<>>, elapsed |-> 0]

\* Payloads are records, so that a relayed text and a snapshot never compare equal.
Text(body) == [kind |-> "text", body |-> body]

\* The fields of a WebsocketSessionActor as websocket_service constructs it
\* (session_id: 0, last_heartbeat: Instant::now(), room_name: user_id).
NewSession(room_name, instant) ==
    [session_id |-> 0, last_heartbeat |-> instant, room_name |-> room_name]

\* WebsocketServerActor::new and main(): empty maps, empty shared state, no
\* session actor yet.
Init ==
    /\ recipients_by_session_id = <<>>
    /\ session_ids_by_room_name = <<>>
    /\ app_state = <<>>
    /\ actor_state = [a \in Actors |-> "unstarted"]
    /\ panicked = FALSE
    /\ last = Step("init")
    /\ mutex_poisoned = FALSE
    /\ mailbox = <<>>
    /\ session = [a \in Actors |-> NewSession("", 0)]
    /\ next_tick = [a \in Actors |-> 0]
    /\ instant_now = 0
    /\ inbox = [a \in Actors |-> <<>>]
    /\ wrote = [a \in Actors |-> <<>>]
    /\ closed_by = [a \in Actors |-> ""]
    /\ snapshot = [a \in Actors |-> [kind |-> "none"]]

\* HashMap::insert / entry API on functions with a finite domain.
MapInsert(map, key, value) ==
    [k \in DOMAIN map \cup {key} |-> IF k = key THEN value ELSE map[k]]

MapRemove(map, key) == [k \in DOMAIN map \ {key} |-> map[k]]

\* A sink is closed once its session actor has stopped: do_send returns Err(Closed).
SinkClosed(actor) == actor_state[actor] = "stopped"

\* ------------------------------------------------------- send_message
\* The sessions the loop of send_message calls do_send on: the ids of the room
\* other than skip_session_id that have a handle.
SendTargets(recipients, rooms, room_name, skip_session_id) ==
    IF room_name \in DOMAIN rooms
    THEN {s \in rooms[room_name] :
            s # skip_session_id /\ s \in DOMAIN recipients}
    ELSE {}

\* The outcomes of one call of send_message.  do_send(..).unwrap() panics on
\* the first target whose sink is closed; the HashSet is iterated in an
\* unspecified order, so any set of open targets may have been served before.
send_message(recipients, rooms, room_name, skip_session_id) ==
    LET targets == SendTargets(recipients, rooms, room_name, skip_session_id)
        open == {s \in targets : ~SinkClosed(recipients[s])}
    IN  IF open = targets
        THEN {[ids |-> targets, panic |-> FALSE]}
        ELSE {[ids |-> served, panic |-> TRUE] : served \in SUBSET open}

\* `sent` after `message` was enqueued to the sinks of `ids`.
Enqueue(sent, recipients, ids, message) ==
    [a \in Actors |->
        IF \E s \in ids : recipients[s] = a
        THEN Append(sent[a], message) ELSE sent[a]]

\* --------------------------------------------------------- the handlers
\* Handler<ConnectMessage>: a random id, insert the handle (HashMap::insert
\* replaces an existing entry), join the room.  The sender is a session actor
\* that has just started and, where its started() is modelled, waits for the
\* reply; actors are numbered in the order they connect.
ConnectMessage(actor, room_name) ==
    /\ ~panicked
    /\ actor_state[actor] \in {"unstarted", "connecting"}
    /\ \A earlier \in 1..(actor - 1) : actor_state[earlier] # "unstarted"
    /\ \E session_id \in SessionIds :
        /\ recipients_by_session_id' =
              MapInsert(recipients_by_session_id, session_id, actor)
        /\ session_ids_by_room_name' =
              MapInsert(session_ids_by_room_name, room_name,
                  (IF room_name \in DOMAIN session_ids_by_room_name
                   THEN session_ids_by_room_name[room_name] ELSE {})
                  \cup {session_id})
        /\ last' = [Step("Connect") EXCEPT !.session_id = session_id,
                        !.room_name = room_name, !.actor = actor]
    /\ actor_state' = [actor_state EXCEPT ![actor] = "active"]
    /\ UNCHANGED <<app_state, panicked>>

\* DisconnectResult with the rooms visited whether or not the id had a handle.
DisconnectResultUnguarded(recipients, rooms, session_id) ==
    [recipients |-> MapRemove(recipients, session_id),
     rooms |-> [r \in DOMAIN rooms |-> rooms[r] \ {session_id}]]

\* Handler<DisconnectMessage> had it dropped the rooms it empties.
DisconnectResultPruned(recipients, rooms, session_id) ==
    IF session_id \in DOMAIN recipients
    THEN [recipients |-> MapRemove(recipients, session_id),
          rooms |-> [r \in {k \in DOMAIN rooms : rooms[k] \ {session_id} # {}}
                        |-> rooms[r] \ {session_id}]]
    ELSE [recipients |-> recipients, rooms |-> rooms]

\* The maps after Handler<DisconnectMessage>: the rooms are visited only when
\* the id had a handle.
DisconnectResult(recipients, rooms, session_id) ==
    IF session_id \in DOMAIN recipients
    THEN [recipients |-> MapRemove(recipients, session_id),
          rooms |-> [r \in DOMAIN rooms |-> rooms[r] \ {session_id}]]
    ELSE [recipients |-> recipients, rooms |-> rooms]

DisconnectMessage(session_id) ==
    /\ ~panicked
    /\ LET result == DisconnectResult(recipients_by_session_id,
                         session_ids_by_room_name, session_id)
       IN  /\ recipients_by_session_id' = result.recipients
           /\ session_ids_by_room_name' = result.rooms
    /\ last' = [Step("Disconnect") EXCEPT !.session_id = session_id,
                    \* recipients_by_session_id.remove(..).is_some()
                    !.removed = session_id \in DOMAIN recipients_by_session_id,
                    \* the step before was a Disconnect of the same id that
                    \* removed its handle
                    !.again = /\ last.op = "Disconnect"
                              /\ last.session_id = session_id
                              /\ last.removed]
    /\ UNCHANGED <<app_state, actor_state, panicked>>

\* Handler<ClientMessage>: relay to the room, skipping the sender.
ClientMessage(session_id, room_name, message) ==
    /\ ~panicked
    /\ \E outcome \in send_message(recipients_by_session_id,
                          session_ids_by_room_name, room_name, session_id) :
        /\ last' = [Step("Relay") EXCEPT !.session_id = session_id,
                        !.room_name = room_name,
                        !.sent = Enqueue(NoSent, recipients_by_session_id,
                                         outcome.ids, Text(message)),
                        !.panic = outcome.panic]
        /\ panicked' = outcome.panic
    /\ UNCHANGED <<recipients_by_session_id, session_ids_by_room_name,
                   app_state, actor_state>>

\* The orders in which a HashMap or HashSet may iterate over `set`.
Orderings(set) ==
    {seq \in [1..Cardinality(set) -> set] :
        \A i, j \in 1..Cardinality(set) : i # j => seq[i] # seq[j]}

ListRoomsMessageOccupied ==
    /\ ~panicked
    /\ \E room_names \in Orderings({r \in DOMAIN session_ids_by_room_name :
                                        session_ids_by_room_name[r] # {}}) :
        last' = [Step("ListRooms") EXCEPT !.room_names = room_names]
    /\ UNCHANGED <<recipients_by_session_id, session_ids_by_room_name,
                   app_state, actor_state, panicked>>

\* Handler<ListRoomsMessage>: the keys of the room map, in the map's
\* (unspecified) iteration order.
ListRoomsMessage ==
    /\ ~panicked
    /\ \E room_names \in Orderings(DOMAIN session_ids_by_room_name) :
        last' = [Step("ListRooms") EXCEPT !.room_names = room_names]
    /\ UNCHANGED <<recipients_by_session_id, session_ids_by_room_name,
                   app_state, actor_state, panicked>>

\* The notifications of Handler<JoinMessage> to the rooms the session left,
\* one send_message("Someone disconnected", 0) per room in the order the rooms
\* were collected; a panic ends the handler.
RECURSIVE NotifyVacated(_, _, _, _)
NotifyVacated(recipients, rooms, room_names, sent) ==
    IF room_names = {}
    THEN {[sent |-> sent, panic |-> FALSE]}
    ELSE UNION {
            UNION {
                LET now == Enqueue(sent, recipients, outcome.ids,
                                   Text("Someone disconnected"))
                IN  IF outcome.panic
                    THEN {[sent |-> now, panic |-> TRUE]}
                    ELSE NotifyVacated(recipients, rooms,
                                       room_names \ {room_name}, now)
                : outcome \in send_message(recipients, rooms, room_name, 0)}
            : room_name \in room_names}

\* Handler<JoinMessage>: remove the id from every room, notify the rooms it
\* was removed from, insert it into the new room, notify the new room.  The
\* handle map is not consulted.
JoinMessage(session_id, room_name) ==
    /\ ~panicked
    /\ LET vacated == {r \in DOMAIN session_ids_by_room_name :
                          session_id \in session_ids_by_room_name[r]}
           removed == [r \in DOMAIN session_ids_by_room_name |->
                          session_ids_by_room_name[r] \ {session_id}]
           inserted == MapInsert(removed, room_name,
                          (IF room_name \in DOMAIN removed
                           THEN removed[room_name] ELSE {}) \cup {session_id})
       IN  \E left \in NotifyVacated(recipients_by_session_id, removed,
                                      vacated, NoSent) :
             IF left.panic
             THEN /\ session_ids_by_room_name' = removed
                  /\ panicked' = TRUE
                  /\ last' = [Step("Join") EXCEPT !.session_id = session_id,
                                 !.room_name = room_name, !.sent = left.sent,
                                 !.panic = TRUE]
             ELSE \E outcome \in send_message(recipients_by_session_id,
                                      inserted, room_name, session_id) :
                  /\ session_ids_by_room_name' = inserted
                  /\ panicked' = outcome.panic
                  /\ last' = [Step("Join") EXCEPT !.session_id = session_id,
                                 !.room_name = room_name,
                                 !.sent = Enqueue(left.sent,
                                     recipients_by_session_id, outcome.ids,
                                     Text("Someone connected")),
                                 !.panic = outcome.panic]
    /\ UNCHANGED <<recipients_by_session_id, app_state, actor_state>>

\* The playlist Handler<BroadcastAppStateMessage> serializes: the record of
\* user_id, or the default playlist when there is none.
default_playlist == [song_requests_enabled |-> FALSE, song_requests |-> <<>>]

\* serde_json::to_string(&AppStateResponse {..}) with rename_all = "camelCase".
AppStateResponse(playlist) ==
    [kind |-> "state",
     songRequestsEnabled |-> playlist.song_requests_enabled,
     songRequests |-> playlist.song_requests]

\* Handler<BroadcastAppStateMessage>: app_state.lock().unwrap() panics when
\* the mutex is poisoned; otherwise the snapshot of user_id goes to the room
\* named user_id, skip_session_id = 0.
BroadcastAppStateMessage(user_id) ==
    /\ ~panicked
    /\ IF mutex_poisoned
       THEN /\ last' = [Step("Broadcast") EXCEPT !.room_name = user_id,
                           !.panic = TRUE]
            /\ panicked' = TRUE
       ELSE LET playlist == IF user_id \in DOMAIN app_state
                            THEN app_state[user_id] ELSE default_playlist
            IN  \E outcome \in send_message(recipients_by_session_id,
                                   session_ids_by_room_name, user_id, 0) :
                 /\ last' = [Step("Broadcast") EXCEPT !.room_name = user_id,
                                !.payload = AppStateResponse(playlist),
                                !.sent = Enqueue(NoSent,
                                    recipients_by_session_id, outcome.ids,
                                    AppStateResponse(playlist)),
                                !.panic = outcome.panic]
                 /\ panicked' = outcome.panic
    /\ UNCHANGED <<recipients_by_session_id, session_ids_by_room_name,
                   app_state, actor_state>>

\* A session actor stops (close frame, protocol error, heartbeat timeout):
\* its mailbox closes.  The DisconnectMessage it sends in stopping() is
\* processed by the coordinator later, as a step of its own.
SessionStopped(actor) ==
    /\ actor_state[actor] = "active"
    /\ actor_state' = [actor_state EXCEPT ![actor] = "stopped"]
    /\ last' = [Step("Stopped") EXCEPT !.actor = actor]
    /\ UNCHANGED <<recipients_by_session_id, session_ids_by_room_name,
                   app_state, panicked>>

\* The coordinator's handlers run on arguments of any value, with no HTTP
\* request and no session step in between.
Next ==
    \/ \E actor \in Actors, room_name \in RoomNames :
          ConnectMessage(actor, room_name)
          /\ UNCHANGED <<http_vars, session_vars>>
    \/ \E session_id \in SessionIds :
          DisconnectMessage(session_id)
          /\ UNCHANGED <<http_vars, session_vars>>
    \/ \E session_id \in SessionIds, room_name \in RoomNames :
          JoinMessage(session_id, room_name)
          /\ UNCHANGED <<http_vars, session_vars>>
    \/ \E session_id \in SessionIds, room_name \in RoomNames,
          message \in Messages :
          ClientMessage(session_id, room_name, message)
          /\ UNCHANGED <<http_vars, session_vars>>
    \/ \E user_id \in RoomNames :
          BroadcastAppStateMessage(user_id)
          /\ UNCHANGED <<http_vars, session_vars>>
    \/ ListRoomsMessage /\ UNCHANGED <<http_vars, session_vars>>
    \/ \E actor \in Actors :
          SessionStopped(actor) /\ UNCHANGED <<http_vars, session_vars>>

Spec == Init /\ [][Next]_vars

\* ------------------------------------------------------ the HTTP handlers
\* Pending coordinator messages the model keeps at most.
MaxMailbox == 2

\* user_id of the request path, song ids, and the `index` query parameter
\* (absent = 0 by unwrap_or(0)).
UserIds == {"r1"}
SongIds == {"s1", "s2"}
SongRequest(song_id) == [song_id |-> song_id]
Indexes == 0..Cardinality(SongIds)

\* The playlist or_insert_with creates.  song_arrangements is left out: no
\* handler of the coordinator and no snapshot reads it.
new_playlist == [song_requests_enabled |-> FALSE, song_requests |-> <<>>]

\* iter().position(..) over the indexes `hits` of the elements satisfying the
\* closure: the 0-based index of the first of them, or -1 for None.
Position(hits) ==
    IF hits = {} THEN -1
    ELSE (CHOOSE i \in hits : \A j \in hits : i <= j) - 1

\* Vec::remove(position), position 0-based and in range.
VecRemove(seq, position) ==
    [i \in 1..(Len(seq) - 1) |->
        IF i <= position THEN seq[i] ELSE seq[i + 1]]

\* song_requests of user_id, the empty Vec when there is no record.
RequestsOf(user_id) ==
    IF user_id \in DOMAIN app_state
    THEN app_state[user_id].song_requests ELSE <<>>

SendBroadcastDropped(user_id) ==
    mailbox

\* Addr::do_send(BroadcastAppStateMessage { user_id }): queued, or dropped
\* when the coordinator actor is gone.
SendBroadcast(user_id) ==
    IF panicked THEN mailbox
    ELSE Append(mailbox, [type |-> "Broadcast", user_id |-> user_id])

\* A handler that finds the mutex poisoned panics in lock().unwrap().
LockPanics(op, user_id) ==
    /\ mutex_poisoned
    /\ last' = [Step(op) EXCEPT !.room_name = user_id, !.panic = TRUE]
    /\ UNCHANGED <<app_state, mutex_poisoned, mailbox>>

\* The end of every mutating handler: the response is built from
\* get(&user_id).unwrap(), which panics, the guard still held, when user_id
\* has no record.
ResponsePoisons(user_id) == user_id \notin DOMAIN app_state'

\* PUT /{user_id}/songs
update_playlist(user_id, song_requests_enabled) ==
    /\ Len(mailbox) < MaxMailbox
    /\ \/ LockPanics("update_playlist", user_id)
       \/ /\ ~mutex_poisoned
          /\ LET playlist == IF user_id \in DOMAIN app_state
                             THEN app_state[user_id] ELSE new_playlist
             IN  app_state' = MapInsert(app_state, user_id,
                     [playlist EXCEPT
                         !.song_requests_enabled = song_requests_enabled])
          /\ mailbox' = SendBroadcast(user_id)
          /\ mutex_poisoned' = ResponsePoisons(user_id)
          /\ last' = [Step("update_playlist") EXCEPT !.room_name = user_id,
                         !.enqueued = 1, !.panic = ResponsePoisons(user_id)]

\* GET /{user_id}/songs/requests
list_song_requests_service(user_id) ==
    \/ LockPanics("list_song_requests", user_id)
    \/ /\ ~mutex_poisoned
       /\ last' = [Step("list_song_requests") EXCEPT !.room_name = user_id]
       /\ UNCHANGED <<app_state, mutex_poisoned, mailbox>>

\* PUT /{user_id}/songs/requests
create_song_request_service(user_id, song_request) ==
    /\ Len(mailbox) < MaxMailbox
    /\ \/ LockPanics("create_song_request", user_id)
       \/ /\ ~mutex_poisoned
          /\ LET song_requests == RequestsOf(user_id)
                 position == Position({i \in 1..Len(song_requests) :
                                 song_requests[i] = song_request})
                 playlist == IF user_id \in DOMAIN app_state
                             THEN app_state[user_id] ELSE new_playlist
             IN  IF position = -1
                 THEN /\ app_state' = MapInsert(app_state, user_id,
                             [playlist EXCEPT !.song_requests =
                                 Append(playlist.song_requests, song_request)])
                      /\ mailbox' = SendBroadcast(user_id)
                      /\ last' = [Step("create_song_request") EXCEPT
                                     !.room_name = user_id,
                                     !.song = song_request.song_id,
                                     !.enqueued = 1,
                                     !.panic = ResponsePoisons(user_id)]
                 ELSE /\ UNCHANGED <<app_state, mailbox>>
                      /\ last' = [Step("create_song_request") EXCEPT
                                     !.room_name = user_id,
                                     !.song = song_request.song_id,
                                     !.panic = ResponsePoisons(user_id)]
          /\ mutex_poisoned' = ResponsePoisons(user_id)

\* DELETE /{user_id}/songs/requests?index=
delete_song_requests_service(user_id, index) ==
    /\ Len(mailbox) < MaxMailbox
    /\ \/ LockPanics("delete_song_requests", user_id)
       \/ /\ ~mutex_poisoned
          /\ LET position == index
                 song_requests_size == Len(RequestsOf(user_id))
             IN  IF position < song_requests_size
                 THEN /\ app_state' = [app_state EXCEPT
                             ![user_id].song_requests = VecRemove(@, position)]
                      /\ mailbox' = SendBroadcast(user_id)
                      /\ last' = [Step("delete_song_requests") EXCEPT
                                     !.room_name = user_id, !.index = index,
                                     !.enqueued = 1,
                                     !.panic = ResponsePoisons(user_id)]
                 ELSE /\ UNCHANGED <<app_state, mailbox>>
                      /\ last' = [Step("delete_song_requests") EXCEPT
                                     !.room_name = user_id, !.index = index,
                                     !.panic = ResponsePoisons(user_id)]
          /\ mutex_poisoned' = ResponsePoisons(user_id)

\* DELETE /{user_id}/songs/requests/{song_id}
delete_song_request_service(user_id, song_id) ==
    /\ Len(mailbox) < MaxMailbox
    /\ \/ LockPanics("delete_song_request", user_id)
       \/ /\ ~mutex_poisoned
          /\ LET song_requests == RequestsOf(user_id)
                 position == Position({i \in 1..Len(song_requests) :
                                 song_requests[i].song_id = song_id})
             IN  IF position # -1
                 THEN /\ app_state' = [app_state EXCEPT
                             ![user_id].song_requests = VecRemove(@, position)]
                      /\ mailbox' = SendBroadcast(user_id)
                      /\ last' = [Step("delete_song_request") EXCEPT
                                     !.room_name = user_id, !.song = song_id,
                                     !.enqueued = 1,
                                     !.panic = ResponsePoisons(user_id)]
                 ELSE /\ UNCHANGED <<app_state, mailbox>>
                      /\ last' = [Step("delete_song_request") EXCEPT
                                     !.room_name = user_id, !.song = song_id,
                                     !.panic = ResponsePoisons(user_id)]
          /\ mutex_poisoned' = ResponsePoisons(user_id)

\* The coordinator takes the BroadcastAppStateMessage at the head of its
\* mailbox.
HandleBroadcast ==
    /\ mailbox # <<>>
    /\ Head(mailbox).type = "Broadcast"
    /\ BroadcastAppStateMessage(Head(mailbox).user_id)
    /\ mailbox' = Tail(mailbox)
    /\ UNCHANGED <<mutex_poisoned, snapshot>>

\* The HTTP handlers beside the coordinator: sessions connect to the rooms and
\* stop, requests mutate the playlists and queue broadcasts, and the
\* coordinator handles queued broadcasts as well as Relay, Broadcast and
\* ListRooms messages of any argument.
HttpNext ==
    \/ \E actor \in Actors, room_name \in RoomNames :
          ConnectMessage(actor, room_name)
          /\ UNCHANGED <<http_vars, session_vars>>
    \/ \E actor \in Actors :
          SessionStopped(actor) /\ UNCHANGED <<http_vars, session_vars>>
    \/ \E session_id \in SessionIds, room_name \in RoomNames,
          message \in Messages :
          ClientMessage(session_id, room_name, message)
          /\ UNCHANGED <<http_vars, session_vars>>
    \/ \E user_id \in RoomNames :
          BroadcastAppStateMessage(user_id)
          /\ UNCHANGED <<http_vars, session_vars>>
    \/ ListRoomsMessage /\ UNCHANGED <<http_vars, session_vars>>
    \/ HandleBroadcast /\ UNCHANGED session_vars
    \/ \E user_id \in UserIds, song_requests_enabled \in BOOLEAN :
          update_playlist(user_id, song_requests_enabled)
          /\ UNCHANGED <<recipients_by_session_id, session_ids_by_room_name,
                         actor_state, panicked, session_vars, snapshot>>
    \/ \E user_id \in UserIds :
          list_song_requests_service(user_id)
          /\ UNCHANGED <<recipients_by_session_id, session_ids_by_room_name,
                         actor_state, panicked, session_vars, snapshot>>
    \/ \E user_id \in UserIds, song_id \in SongIds :
          create_song_request_service(user_id, SongRequest(song_id))
          /\ UNCHANGED <<recipients_by_session_id, session_ids_by_room_name,
                         actor_state, panicked, session_vars, snapshot>>
    \/ \E user_id \in UserIds, index \in Indexes :
          delete_song_requests_service(user_id, index)
          /\ UNCHANGED <<recipients_by_session_id, session_ids_by_room_name,
                         actor_state, panicked, session_vars, snapshot>>
    \/ \E user_id \in UserIds, song_id \in SongIds :
          delete_song_request_service(user_id, song_id)
          /\ UNCHANGED <<recipients_by_session_id, session_ids_by_room_name,
                         actor_state, panicked, session_vars, snapshot>>

SpecHttp == Init /\ [][HttpNext]_vars

\* What each session was last enqueued once `sent` is added: the sessions
\* write what they are enqueued to their peers in order.
Snapshots(sent) ==
    [a \in Actors |-> IF sent[a] = <<>> THEN snapshot[a]
                      ELSE sent[a][Len(sent[a])]]

\* The coordinator handles the Broadcast at the head of its queue, and what
\* it enqueues to each session is recorded.
DeliverBroadcast ==
    /\ mailbox # <<>>
    /\ Head(mailbox).type = "Broadcast"
    /\ BroadcastAppStateMessage(Head(mailbox).user_id)
    /\ mailbox' = Tail(mailbox)
    /\ snapshot' = Snapshots(last'.sent)
    /\ UNCHANGED mutex_poisoned

\* The mutating HTTP handlers beside the coordinator, with the snapshots the
\* sessions are sent recorded: sessions connect to the rooms and stop,
\* requests mutate the playlists and queue broadcasts, the coordinator
\* handles the queued broadcasts.
SnapshotNext ==
    \/ \E actor \in Actors, room_name \in RoomNames :
          ConnectMessage(actor, room_name)
          /\ UNCHANGED <<http_vars, session_vars>>
    \/ \E actor \in Actors :
          SessionStopped(actor) /\ UNCHANGED <<http_vars, session_vars>>
    \/ DeliverBroadcast /\ UNCHANGED session_vars
    \/ \E user_id \in UserIds, song_requests_enabled \in BOOLEAN :
          update_playlist(user_id, song_requests_enabled)
          /\ UNCHANGED <<recipients_by_session_id, session_ids_by_room_name,
                         actor_state, panicked, session_vars, snapshot>>
    \/ \E user_id \in UserIds, song_id \in SongIds :
          create_song_request_service(user_id, SongRequest(song_id))
          /\ UNCHANGED <<recipients_by_session_id, session_ids_by_room_name,
                         actor_state, panicked, session_vars, snapshot>>
    \/ \E user_id \in UserIds, index \in Indexes :
          delete_song_requests_service(user_id, index)
          /\ UNCHANGED <<recipients_by_session_id, session_ids_by_room_name,
                         actor_state, panicked, session_vars, snapshot>>
    \/ \E user_id \in UserIds, song_id \in SongIds :
          delete_song_request_service(user_id, song_id)
          /\ UNCHANGED <<recipients_by_session_id, session_ids_by_room_name,
                         actor_state, panicked, session_vars, snapshot>>

SpecSnapshot == Init /\ [][SnapshotNext]_vars

\* ------------------------------------------------------ the session actors
\* How often heartbeat pings are sent, and how long before lack of client
\* response causes a timeout (seconds).
HEARTBEAT_INTERVAL == 5
CLIENT_TIMEOUT == 10

\* The clock stops at MaxTime; a session's mailbox holds at most MaxInbox
\* payloads.
MaxTime == 15
MaxInbox == 1

\* Text frames are sequences of characters.
\* str::trim, with the space as the only whitespace character.
RECURSIVE trim_start(_)
trim_start(text) ==
    IF text # <<>> /\ Head(text) = " " THEN trim_start(Tail(text)) ELSE text

RECURSIVE trim_end(_)
trim_end(text) ==
    IF text # <<>> /\ text[Len(text)] = " "
    THEN trim_end(SubSeq(text, 1, Len(text) - 1)) ELSE text

trim(text) == trim_end(trim_start(text))

starts_with(text, char) == text # <<>> /\ Head(text) = char

\* splitn(2, ' '): the text up to the first space and the rest after it, or
\* the text alone when it has no space.
splitn_2(text) ==
    IF \E i \in 1..Len(text) : text[i] = " "
    THEN LET first == CHOOSE i \in 1..Len(text) :
                          text[i] = " " /\ \A j \in 1..(i - 1) : text[j] # " "
         IN  <<SubSeq(text, 1, first - 1), SubSeq(text, first + 1, Len(text))>>
    ELSE <<text>>

\* &str to String: the characters as one string value.
RECURSIVE to_owned(_)
to_owned(text) ==
    IF text = <<>> THEN "" ELSE Head(text) \o to_owned(Tail(text))

\* The text frames a peer sends.
Texts ==
    { <<"h", "e", "l", "l", "o">>,
      <<"/", "l", "i", "s", "t">>,
      <<"/", "j", "o", "i", "n", " ", "r", "2">>,
      <<"/", "j", "o", "i", "n">>,
      <<"/", "j", "o", "i", "n", " ">>,
      <<"/", "n", "o", "p", "e">> }

\* Result<ws::Message, ws::ProtocolError>
WebsocketMessages ==
    {[kind |-> kind, text |-> <<>>] :
        kind \in {"Err", "Ping", "Pong", "Binary", "Close", "Continuation",
                  "Nop"}}
    \cup {[kind |-> "Text", text |-> text] : text \in Texts}

\* Frames written to the peer: ctx.text(message), ctx.ping(b""), ctx.pong(..),
\* ctx.close(..).
Frame(kind, message) == [frame |-> kind, message |-> message]
TextFrame(message) == Frame("text", message)

\* The frames ctx.text writes, one per room of the /list reply.
RoomFrames(room_names) ==
    [i \in 1..Len(room_names) |-> TextFrame(Text(room_names[i]))]

\* Addr::do_send of a session to the coordinator: the messages are queued
\* behind the pending ones, or dropped when the coordinator actor is gone.
Send(messages) == IF panicked THEN mailbox ELSE mailbox \o messages

Disconnect(session_id) == [type |-> "Disconnect", session_id |-> session_id]

\* ctx.stop(): stopping() sends DisconnectMessage with the session's id after
\* whatever the callback sent before, and the actor ends with its mailbox.
stopping(actor, cause, sent_before) ==
    /\ mailbox' = Send(sent_before \o <<Disconnect(session[actor].session_id)>>)
    /\ actor_state' = [actor_state EXCEPT ![actor] = "stopped"]
    /\ inbox' = [inbox EXCEPT ![actor] = <<>>]
    /\ closed_by' = [closed_by EXCEPT ![actor] = cause]

\* websocket_service and Actor::started: the actor is created with id 0, its
\* heartbeat interval starts, and it sends ConnectMessage and waits for the
\* reply.
started(actor, room_name) ==
    /\ actor_state[actor] = "unstarted"
    /\ \A earlier \in 1..(actor - 1) : actor_state[earlier] # "unstarted"
    /\ session' = [session EXCEPT ![actor] = NewSession(room_name, instant_now)]
    /\ next_tick' = [next_tick EXCEPT ![actor] = instant_now + HEARTBEAT_INTERVAL]
    /\ mailbox' = Send(<<[type |-> "Connect", actor |-> actor,
                          room_name |-> room_name]>>)
    /\ Len(mailbox') <= MaxMailbox
    /\ actor_state' = [actor_state EXCEPT ![actor] = "connecting"]
    /\ last' = [Step("started") EXCEPT !.actor = actor, !.room_name = room_name]
    /\ wrote' = NoSent
    /\ UNCHANGED <<recipients_by_session_id, session_ids_by_room_name,
                   app_state, panicked, mutex_poisoned, snapshot, instant_now, inbox,
                   closed_by>>

\* The `_ => ctx.stop()` arm of started: the coordinator is gone, the send
\* fails and the session stops.
ConnectFailed(actor) ==
    /\ actor_state[actor] = "connecting"
    /\ panicked
    /\ stopping(actor, "connect", <<>>)
    /\ last' = [Step("connect_failed") EXCEPT !.actor = actor,
                   !.session_id = session[actor].session_id]
    /\ wrote' = NoSent
    /\ UNCHANGED <<recipients_by_session_id, session_ids_by_room_name,
                   app_state, panicked, mutex_poisoned, snapshot, session, next_tick,
                   instant_now>>

\* The payloads the coordinator's handler enqueued, appended to the sessions'
\* mailboxes.
Delivered(sent) == [a \in Actors |-> inbox[a] \o sent[a]]

Payloads(messages) ==
    SelectSeq(messages, LAMBDA message : message.kind # "rooms")

\* The coordinator takes the message at the head of its mailbox.  The reply
\* to ConnectMessage sets the waiting session's id; the reply to
\* ListRoomsMessage travels back to the waiting session.
HandleMailbox ==
    /\ mailbox # <<>>
    /\ mailbox' = Tail(mailbox)
    /\ LET message == Head(mailbox)
       IN  \/ /\ message.type = "Connect"
              /\ ConnectMessage(message.actor, message.room_name)
              /\ session' = [session EXCEPT
                     ![message.actor].session_id = last'.session_id]
              /\ inbox' = inbox
           \/ /\ message.type = "Disconnect"
              /\ DisconnectMessage(message.session_id)
              /\ UNCHANGED <<session, inbox>>
           \/ /\ message.type = "Join"
              /\ JoinMessage(message.session_id, message.room_name)
              /\ inbox' = Delivered(last'.sent)
              /\ UNCHANGED session
           \/ /\ message.type = "Relay"
              /\ ClientMessage(message.session_id, message.room_name,
                               message.message)
              /\ inbox' = Delivered(last'.sent)
              /\ UNCHANGED session
           \/ /\ message.type = "ListRooms"
              /\ ListRoomsMessage
              /\ inbox' = [inbox EXCEPT ![message.actor] =
                     Append(@, [kind |-> "rooms",
                                room_names |-> last'.room_names])]
              /\ UNCHANGED session
    /\ \A a \in Actors : Len(Payloads(inbox'[a])) <= MaxInbox
    /\ wrote' = NoSent
    /\ UNCHANGED <<mutex_poisoned, snapshot, next_tick, instant_now, closed_by>>

\* The coordinator handles a BroadcastAppStateMessage an HTTP handler sent:
\* the HTTP handlers run beside the sessions, so their broadcasts arrive at any
\* point of the coordinator's queue.
HandleHttpBroadcast(user_id) ==
    /\ BroadcastAppStateMessage(user_id)
    /\ inbox' = Delivered(last'.sent)
    /\ \A a \in Actors : Len(Payloads(inbox'[a])) <= MaxInbox
    /\ wrote' = NoSent
    /\ UNCHANGED <<mutex_poisoned, snapshot, mailbox, session, next_tick, instant_now,
                   closed_by>>

ExpiredAtTimeout(elapsed) ==
    elapsed >= CLIENT_TIMEOUT

\* The elapsed time check of check_heartbeat.
Expired(elapsed) == elapsed > CLIENT_TIMEOUT

\* The callback of run_interval(HEARTBEAT_INTERVAL, ..): it runs when the
\* interval is due, or later when the actor was busy or waiting.
check_heartbeat(actor) ==
    /\ actor_state[actor] = "active"
    /\ instant_now >= next_tick[actor]
    /\ next_tick' = [next_tick EXCEPT ![actor] = @ + HEARTBEAT_INTERVAL]
    /\ LET elapsed == instant_now - session[actor].last_heartbeat
       IN  /\ last' = [Step("check_heartbeat") EXCEPT !.actor = actor,
                          !.session_id = session[actor].session_id,
                          !.elapsed = elapsed]
           /\ IF Expired(elapsed)
              THEN /\ stopping(actor, "heartbeat",
                         <<Disconnect(session[actor].session_id)>>)
                   /\ Len(mailbox') <= MaxMailbox
                   /\ wrote' = NoSent
              ELSE /\ wrote' = [NoSent EXCEPT ![actor] =
                                   <<Frame("ping", Text(""))>>]
                   /\ UNCHANGED <<mailbox, actor_state, inbox, closed_by>>
    /\ UNCHANGED <<recipients_by_session_id, session_ids_by_room_name,
                   app_state, panicked, mutex_poisoned, snapshot, session, instant_now>>

unknown_command_ignored(trimmed_message) ==
    <<>>

\* The `_` arm of the command match: ctx.text(format!("!!! unknown command:
\* {:?}", trimmed_message)), the frames it writes.
unknown_command(trimmed_message) ==
    <<TextFrame(Text("!!! unknown command: \""
                     \o to_owned(trimmed_message) \o "\""))>>

\* StreamHandler::handle: one frame of the peer.
StreamHandler(actor, websocket_message) ==
    /\ actor_state[actor] = "active"
    /\ LET step == [Step("StreamHandler") EXCEPT !.actor = actor,
                       !.session_id = session[actor].session_id,
                       !.frame = websocket_message.kind,
                       !.text = websocket_message.text]
           trimmed_message == trim(websocket_message.text)
           words == splitn_2(trimmed_message)
       IN  \/ /\ websocket_message.kind = "Err"
              /\ stopping(actor, "error", <<>>)
              /\ wrote' = NoSent
              /\ last' = step
              /\ UNCHANGED session
           \/ /\ websocket_message.kind = "Ping"
              /\ session' = [session EXCEPT
                     ![actor].last_heartbeat = instant_now]
              /\ wrote' = [NoSent EXCEPT ![actor] = <<Frame("pong", Text(""))>>]
              /\ last' = step
              /\ UNCHANGED <<mailbox, actor_state, inbox, closed_by>>
           \/ /\ websocket_message.kind = "Pong"
              /\ session' = [session EXCEPT
                     ![actor].last_heartbeat = instant_now]
              /\ wrote' = NoSent
              /\ last' = step
              /\ UNCHANGED <<mailbox, actor_state, inbox, closed_by>>
           \/ /\ websocket_message.kind = "Text"
              /\ starts_with(trimmed_message, "/")
              /\ to_owned(words[1]) = "/list"
              /\ mailbox' = Send(<<[type |-> "ListRooms", actor |-> actor]>>)
              /\ actor_state' = [actor_state EXCEPT ![actor] = "listing"]
              /\ wrote' = NoSent
              /\ last' = step
              /\ UNCHANGED <<session, inbox, closed_by>>
           \/ /\ websocket_message.kind = "Text"
              /\ starts_with(trimmed_message, "/")
              /\ to_owned(words[1]) = "/join"
              /\ IF Len(words) = 2
                 THEN /\ session' = [session EXCEPT
                             ![actor].room_name = to_owned(words[2])]
                      /\ mailbox' = Send(<<[type |-> "Join",
                             session_id |-> session[actor].session_id,
                             room_name |-> to_owned(words[2])]>>)
                      /\ wrote' = [NoSent EXCEPT ![actor] =
                                      <<TextFrame(Text("joined"))>>]
                      /\ last' = [step EXCEPT
                                     !.room_name = to_owned(words[2])]
                 ELSE /\ wrote' = [NoSent EXCEPT ![actor] =
                             <<TextFrame(Text("!!! room name is required"))>>]
                      /\ last' = step
                      /\ UNCHANGED <<session, mailbox>>
              /\ UNCHANGED <<actor_state, inbox, closed_by>>
           \/ /\ websocket_message.kind = "Text"
              /\ starts_with(trimmed_message, "/")
              /\ to_owned(words[1]) \notin {"/list", "/join"}
              /\ wrote' = [NoSent EXCEPT ![actor] =
                                unknown_command(trimmed_message)]
              /\ last' = step
              /\ UNCHANGED <<session, mailbox, actor_state, inbox, closed_by>>
           \/ /\ websocket_message.kind = "Text"
              /\ ~starts_with(trimmed_message, "/")
              /\ mailbox' = Send(<<[type |-> "Relay",
                     session_id |-> session[actor].session_id,
                     room_name |-> session[actor].room_name,
                     message |-> to_owned(trimmed_message)]>>)
              /\ wrote' = NoSent
              /\ last' = step
              /\ UNCHANGED <<session, actor_state, inbox, closed_by>>
           \/ /\ websocket_message.kind \in {"Binary", "Nop"}
              /\ wrote' = NoSent
              /\ last' = step
              /\ UNCHANGED <<session, mailbox, actor_state, inbox, closed_by>>
           \/ /\ websocket_message.kind = "Close"
              /\ stopping(actor, "close", <<>>)
              /\ wrote' = [NoSent EXCEPT ![actor] = <<Frame("close", Text(""))>>]
              /\ last' = step
              /\ UNCHANGED session
           \/ /\ websocket_message.kind = "Continuation"
              /\ stopping(actor, "continuation", <<>>)
              /\ wrote' = NoSent
              /\ last' = step
              /\ UNCHANGED session
    /\ Len(mailbox') <= MaxMailbox
    /\ UNCHANGED <<recipients_by_session_id, session_ids_by_room_name,
                   app_state, panicked, mutex_poisoned, snapshot, next_tick, instant_now>>

\* The continuation of the /list request: one text frame per room of the
\* reply; the session then handles frames and messages again.
ListReply(actor) ==
    /\ actor_state[actor] = "listing"
    /\ \E i \in 1..Len(inbox[actor]) :
        /\ inbox[actor][i].kind = "rooms"
        /\ wrote' = [NoSent EXCEPT ![actor] =
                        RoomFrames(inbox[actor][i].room_names)]
        /\ inbox' = [inbox EXCEPT ![actor] = Payloads(@)]
        /\ last' = [Step("list_reply") EXCEPT !.actor = actor,
                       !.room_names = inbox[actor][i].room_names]
    /\ actor_state' = [actor_state EXCEPT ![actor] = "active"]
    /\ UNCHANGED <<recipients_by_session_id, session_ids_by_room_name,
                   app_state, panicked, mutex_poisoned, snapshot, mailbox, session,
                   next_tick, instant_now, closed_by>>

\* The `_ => log::error!` arm of the /list request: the coordinator is gone
\* and no reply is on its way.
ListFailed(actor) ==
    /\ actor_state[actor] = "listing"
    /\ panicked
    /\ Payloads(inbox[actor]) = inbox[actor]
    /\ actor_state' = [actor_state EXCEPT ![actor] = "active"]
    /\ last' = [Step("list_failed") EXCEPT !.actor = actor]
    /\ wrote' = NoSent
    /\ UNCHANGED <<recipients_by_session_id, session_ids_by_room_name,
                   app_state, panicked, mutex_poisoned, snapshot, mailbox, session,
                   next_tick, instant_now, inbox, closed_by>>

\* Handler<WebsocketReplyMessage>: the payload is written to the peer.
WebsocketReplyMessage(actor) ==
    /\ actor_state[actor] = "active"
    /\ inbox[actor] # <<>>
    /\ wrote' = [NoSent EXCEPT ![actor] = <<TextFrame(Head(inbox[actor]))>>]
    /\ inbox' = [inbox EXCEPT ![actor] = Tail(@)]
    /\ last' = [Step("WebsocketReplyMessage") EXCEPT !.actor = actor]
    /\ UNCHANGED <<recipients_by_session_id, session_ids_by_room_name,
                   app_state, actor_state, panicked, mutex_poisoned, snapshot, mailbox,
                   session, next_tick, instant_now, closed_by>>

\* A second passes, once the actors have run what was ready to run: the
\* coordinator has emptied its mailbox, the sessions theirs, and no heartbeat
\* interval of a running session is due.
Advance ==
    /\ instant_now < MaxTime
    /\ panicked \/ mailbox = <<>>
    /\ \A a \in Actors :
          actor_state[a] = "active" =>
              inbox[a] = <<>> /\ instant_now < next_tick[a]
    /\ instant_now' = instant_now + 1
    /\ last' = Step("advance")
    /\ wrote' = NoSent
    /\ UNCHANGED <<recipients_by_session_id, session_ids_by_room_name,
                   app_state, actor_state, panicked, mutex_poisoned, snapshot, mailbox,
                   session, next_tick, inbox, closed_by>>

\* The frames of the peers while the clock stands still: all but the
\* heartbeats.
SessionMessages ==
    {m \in WebsocketMessages : m.kind \notin {"Ping", "Pong", "Nop"}}

\* The sessions beside the coordinator, the clock standing still: peers
\* connect to a user's room and send frames of every kind, and the coordinator
\* handles what the sessions send it.
SessionNext ==
    \/ \E actor \in Actors, room_name \in UserIds : started(actor, room_name)
    \/ \E actor \in Actors : ConnectFailed(actor)
    \/ HandleMailbox
    \/ \E user_id \in UserIds : HandleHttpBroadcast(user_id)
    \/ \E actor \in Actors, websocket_message \in SessionMessages :
          StreamHandler(actor, websocket_message)
    \/ \E actor \in Actors : ListReply(actor)
    \/ \E actor \in Actors : ListFailed(actor)
    \/ \E actor \in Actors : WebsocketReplyMessage(actor)

SpecSession == Init /\ [][SessionNext]_vars

\* The frames of the peer while the clock runs.
HeartbeatMessages ==
    {m \in WebsocketMessages :
        \/ m.kind \in {"Ping", "Pong", "Nop"}
        \/ m.kind = "Text" /\ to_owned(m.text) = "hello"}

\* The first session actor.
HeartbeatActors == {actor \in Actors : \A other \in Actors : actor <= other}

\* One session beside the coordinator with the clock running: its heartbeat
\* interval fires, the peer answers or does not and sends texts, and the
\* broadcasts of the HTTP handlers reach the session.
HeartbeatNext ==
    \/ \E actor \in HeartbeatActors, room_name \in UserIds :
          started(actor, room_name)
    \/ HandleMailbox
    \/ \E user_id \in UserIds : HandleHttpBroadcast(user_id)
    \/ \E actor \in Actors : check_heartbeat(actor)
    \/ \E actor \in Actors, websocket_message \in HeartbeatMessages :
          StreamHandler(actor, websocket_message)
    \/ \E actor \in Actors : WebsocketReplyMessage(actor)
    \/ Advance

SpecHeartbeat == Init /\ [][HeartbeatNext]_vars

\* ------------------------------------------------------------ properties
\* The rooms whose member set contains session_id.
RoomsOf(rooms, session_id) == {r \in DOMAIN rooms : session_id \in rooms[r]}

\* The actors send_message is to serve for a room: the handles of its members
\* other than skip_session_id.
HandlesOf(recipients, rooms, room_name, skip_session_id) ==
    {recipients[s] : s \in SendTargets(recipients, rooms, room_name,
                                       skip_session_id)}

\* C1: the id Connect returns is not a key of the handle map at that moment
\* (Connect never replaces the handle of a registered session).
C1_ConnectReturnsFreshId ==
    [][last'.op = "Connect" =>
          last'.session_id \notin DOMAIN recipients_by_session_id]_vars

\* C2: no dangling membership: every id in a room's member set is a key of
\* the handle map.
C2_NoDanglingMembership ==
    \A r \in DOMAIN session_ids_by_room_name :
        session_ids_by_room_name[r] \subseteq DOMAIN recipients_by_session_id

\* C3: every id that is a key of the handle map is a member of exactly one
\* room.
C3_SingleRoomMembership ==
    \A s \in DOMAIN recipients_by_session_id :
        Cardinality(RoomsOf(session_ids_by_room_name, s)) = 1

\* C4: a Relay enqueues the payload exactly once to every member of the room
\* other than the sender (whose sink accepts it), and nothing to the sender or
\* to a session outside the room.
C4_RelayReachesEveryOtherMember ==
    [][last'.op = "Relay" =>
          \A a \in Actors :
              IF a \in HandlesOf(recipients_by_session_id,
                           session_ids_by_room_name, last'.room_name,
                           last'.session_id)
              THEN SinkClosed(a) \/ Len(last'.sent[a]) = 1
              ELSE last'.sent[a] = <<>>]_vars

\* C5: a closed sink among the recipients of a Relay or Broadcast does not
\* keep the payload from the other members, and the coordinator does not fail.
C5_DeliveryFailureIsolated ==
    [][last'.op \in {"Relay", "Broadcast"} =>
          /\ ~panicked'
          /\ \A a \in HandlesOf(recipients_by_session_id,
                        session_ids_by_room_name, last'.room_name,
                        IF last'.op = "Relay" THEN last'.session_id ELSE 0) :
                SinkClosed(a) \/ Len(last'.sent[a]) = 1]_vars

\* C6: a Broadcast whose recipients all have an open sink enqueues the
\* snapshot to every registered member of the room, whatever its id.
C6_BroadcastReachesEveryMember ==
    [][(/\ last'.op = "Broadcast"
        /\ \A a \in Actors : ~SinkClosed(a)) =>
          \A s \in SessionIds :
              (/\ last'.room_name \in DOMAIN session_ids_by_room_name
               /\ s \in session_ids_by_room_name[last'.room_name]
               /\ s \in DOMAIN recipients_by_session_id)
              => Len(last'.sent[recipients_by_session_id[s]]) = 1]_vars

\* C7: after Disconnect(id) the id is no key of the handle map and no member
\* of any room, and no handler enqueues anything to an actor whose id is not
\* a key of the handle map.
C7_DisconnectRemovesEverywhere ==
    [][/\ last'.op = "Disconnect" =>
            /\ last'.session_id \notin DOMAIN recipients_by_session_id'
            /\ RoomsOf(session_ids_by_room_name', last'.session_id) = {}
       /\ \A a \in Actors :
            last'.sent[a] # <<>> =>
                \E s \in DOMAIN recipients_by_session_id :
                    recipients_by_session_id[s] = a]_vars
\* C8: in every reachable state Disconnect(id) applied twice leaves the maps
\* Disconnect(id) applied once leaves, Disconnect of an id without a handle
\* leaves the maps as they are, and a Disconnect enqueues nothing and does
\* not fail; a Disconnect right after a Disconnect of the same id finds no
\* handle to remove.
C8_DisconnectIdempotent ==
    /\ \A s \in SessionIds :
        LET once == DisconnectResult(recipients_by_session_id,
                        session_ids_by_room_name, s)
            twice == DisconnectResult(once.recipients, once.rooms, s)
        IN  /\ twice = once
            /\ s \notin DOMAIN recipients_by_session_id =>
                  /\ once.recipients = recipients_by_session_id
                  /\ once.rooms = session_ids_by_room_name
    /\ last.op = "Disconnect" =>
          /\ last.sent = NoSent
          /\ ~last.panic
          /\ ~panicked
          /\ last.again => ~last.removed

\* C8 witness: a Disconnect has just been processed for the second time in a
\* row, the first having removed the handle, while another session is still
\* registered in a room.
C8_Witness ==
    /\ last.op = "Disconnect"
    /\ last.again
    /\ \E s \in DOMAIN recipients_by_session_id :
          RoomsOf(session_ids_by_room_name, s) # {}

\* C9: Join(id, B) of a registered id that is a member of a room leaves the id
\* a member of B and of no other room, and a Relay enqueues nothing to a
\* session that is not a member of the room it names.
C9_JoinMovesSession ==
    [][/\ (/\ last'.op = "Join"
           /\ last'.session_id \in DOMAIN recipients_by_session_id
           /\ RoomsOf(session_ids_by_room_name, last'.session_id) # {}) =>
             RoomsOf(session_ids_by_room_name', last'.session_id)
                 = {last'.room_name}
       /\ last'.op = "Relay" =>
             \A a \in Actors :
                 last'.sent[a] # <<>> =>
                     a \in HandlesOf(recipients_by_session_id,
                               session_ids_by_room_name, last'.room_name,
                               last'.session_id)]_vars

\* C10: Join of an id that is no key of the handle map changes neither map
\* and enqueues nothing.
C10_JoinUnknownIsNoOp ==
    [][(/\ last'.op = "Join"
        /\ last'.session_id \notin DOMAIN recipients_by_session_id) =>
          /\ recipients_by_session_id' = recipients_by_session_id
          /\ session_ids_by_room_name' = session_ids_by_room_name
          /\ last'.sent = NoSent]_vars

\* C11: a Relay whose sender id is no key of the handle map enqueues nothing,
\* changes neither map and does not fail.
C11_RelayFromUnknownIsNoOp ==
    [][(/\ last'.op = "Relay"
        /\ last'.session_id \notin DOMAIN recipients_by_session_id) =>
          /\ last'.sent = NoSent
          /\ ~last'.panic
          /\ recipients_by_session_id' = recipients_by_session_id
          /\ session_ids_by_room_name' = session_ids_by_room_name]_vars

\* C12: Broadcast(room) produces the payload of the room's playlist record,
\* flag and request list in order, or of the default snapshot (disabled, empty)
\* when the key has no record; it does not fail and creates no record.
C12_BroadcastPayloadOfRecordOrDefault ==
    [][last'.op = "Broadcast" =>
          /\ last'.payload = AppStateResponse(
                 IF last'.room_name \in DOMAIN app_state
                 THEN app_state[last'.room_name] ELSE default_playlist)
          /\ app_state' = app_state]_vars

\* C13: Relay, Broadcast and ListRooms leave the handle map, the room map and
\* the playlists unchanged; a Relay or Broadcast to a room without members, or
\* to a room that is not tracked, delivers nothing and is not an error.
C13_ReadOnlyHandlers ==
    [][last'.op \in {"Relay", "Broadcast", "ListRooms"} =>
          /\ recipients_by_session_id' = recipients_by_session_id
          /\ session_ids_by_room_name' = session_ids_by_room_name
          /\ app_state' = app_state
          /\ ((/\ last'.op \in {"Relay", "Broadcast"}
               /\ \/ last'.room_name \notin DOMAIN session_ids_by_room_name
                  \/ session_ids_by_room_name[last'.room_name] = {}) =>
                 /\ last'.sent = NoSent
                 /\ ~last'.panic)]_vars

\* C15: an HTTP operation that changes the user's playlist (a create of a
\* request not in the list, a delete of an existing request, an update of the
\* flag) sends exactly one Broadcast for that user's key to the coordinator,
\* queued behind the pending ones; a duplicate create, a delete of an absent
\* song id or of an out-of-range index sends none.
C15_OneBroadcastPerMutation ==
    [][last'.op \in {"update_playlist", "create_song_request",
                     "delete_song_requests", "delete_song_request",
                     "list_song_requests"} =>
          LET changes == \/ app_state' # app_state
                         \/ last'.op = "update_playlist" /\ ~mutex_poisoned
          IN  /\ changes =>
                    /\ last'.enqueued = 1
                    /\ ~panicked => mailbox' = Append(mailbox,
                           [type |-> "Broadcast", user_id |-> last'.room_name])
              /\ ~changes =>
                    /\ last'.enqueued = 0
                    /\ mailbox' = mailbox]_vars

\* A request was deleted by song id and its broadcast is the one queued.
C15_Witness ==
    /\ last.op = "delete_song_request"
    /\ last.enqueued = 1
    /\ ~panicked
    /\ mailbox = <<[type |-> "Broadcast", user_id |-> last.room_name]>>
    /\ last.room_name \in DOMAIN app_state
    /\ app_state[last.room_name].song_requests # <<>>

\* The command a text frame carries after trimming: its verb and the number
\* of words splitn(2, ' ') yields.
Verb(text) == to_owned(splitn_2(trim(text))[1])
IsCommand(text) == starts_with(trim(text), "/")

\* C14: a list command makes the session ask the coordinator for the rooms;
\* the coordinator answers with every key of its room map as it is when it
\* handles the request, rooms without members included, no name twice and
\* nothing enqueued to any session; the session then writes one text frame per
\* name of the answer to its own peer and nothing is written to any other.
C14_ListWritesEveryRoomOnce ==
    [][/\ (/\ last'.op = "StreamHandler"
           /\ last'.frame = "Text"
           /\ IsCommand(last'.text)
           /\ Verb(last'.text) = "/list") =>
              /\ wrote' = NoSent
              /\ ~panicked => mailbox' = Append(mailbox,
                     [type |-> "ListRooms", actor |-> last'.actor])
       /\ (last'.op = "ListRooms") =>
              /\ {last'.room_names[i] : i \in 1..Len(last'.room_names)}
                     = DOMAIN session_ids_by_room_name
              /\ Len(last'.room_names)
                     = Cardinality(DOMAIN session_ids_by_room_name)
              /\ last'.sent = NoSent
              /\ wrote' = NoSent
              /\ \A a \in Actors :
                    inbox'[a] = IF a = Head(mailbox).actor
                                THEN Append(inbox[a],
                                         [kind |-> "rooms",
                                          room_names |-> last'.room_names])
                                ELSE inbox[a]
       /\ (last'.op = "list_reply") =>
              /\ \E i \in 1..Len(inbox[last'.actor]) :
                    /\ inbox[last'.actor][i].kind = "rooms"
                    /\ inbox[last'.actor][i].room_names = last'.room_names
              /\ Len(wrote'[last'.actor]) = Len(last'.room_names)
              /\ \A i \in 1..Len(last'.room_names) :
                    wrote'[last'.actor][i] =
                        [frame |-> "text",
                         message |-> Text(last'.room_names[i])]
              /\ \A a \in Actors \ {last'.actor} : wrote'[a] = <<>>]_vars

\* A session has written the two rooms of a reply, one of them a room that has
\* no member.
C14_Witness ==
    /\ last.op = "list_reply"
    /\ Len(wrote[last.actor]) = 2
    /\ \E i \in 1..2 :
          /\ wrote[last.actor][i].message.body \in DOMAIN session_ids_by_room_name
          /\ session_ids_by_room_name[wrote[last.actor][i].message.body] = {}

\* The session's id occurs nowhere in the coordinator's maps.
Unregistered(session_id) ==
    /\ session_id \notin DOMAIN recipients_by_session_id
    /\ \A r \in DOMAIN session_ids_by_room_name :
          session_id \notin session_ids_by_room_name[r]

\* C16: the heartbeat check of a running session comes every
\* HEARTBEAT_INTERVAL; when more than CLIENT_TIMEOUT has passed since the
\* session last received a ping or a pong (or was created), it sends
\* Disconnect for its id to the coordinator and stops; otherwise, also at
\* exactly CLIENT_TIMEOUT, it writes a ping to its peer, sends nothing to the
\* coordinator and keeps running.  Ping and pong frames, and nothing else,
\* move the time the check measures from.
C16_HeartbeatCheck ==
    [][/\ (last'.op = "check_heartbeat") =>
            LET actor == last'.actor
                elapsed == instant_now - session[actor].last_heartbeat
            IN  /\ actor_state[actor] = "active"
                /\ last'.elapsed = elapsed
                /\ next_tick'[actor] = next_tick[actor] + 5
                /\ IF elapsed > 10
                   THEN /\ actor_state'[actor] = "stopped"
                        /\ wrote' = NoSent
                        /\ ~panicked =>
                              /\ Len(mailbox') > Len(mailbox)
                              /\ \A i \in (Len(mailbox) + 1)..Len(mailbox') :
                                    mailbox'[i] = [type |-> "Disconnect",
                                        session_id |-> session[actor].session_id]
                   ELSE /\ actor_state'[actor] = "active"
                        /\ wrote'[actor] = <<[frame |-> "ping",
                                              message |-> Text("")]>>
                        /\ mailbox' = mailbox
       /\ \A actor \in Actors :
            /\ (/\ last'.op = "StreamHandler"
                /\ last'.actor = actor
                /\ last'.frame \in {"Ping", "Pong"}) =>
                   session'[actor].last_heartbeat = instant_now
            /\ (/\ actor_state[actor] = "active"
                /\ ~(/\ last'.op = "StreamHandler"
                     /\ last'.actor = actor
                     /\ last'.frame \in {"Ping", "Pong"})) =>
                   session'[actor].last_heartbeat
                       = session[actor].last_heartbeat]_vars

\* A heartbeat check found more than the timeout elapsed and stopped the
\* session.
C16_Witness ==
    /\ last.op = "check_heartbeat"
    /\ last.elapsed > 10
    /\ actor_state[last.actor] = "stopped"
    /\ closed_by[last.actor] = "heartbeat"

\* C17: a session whose peer no longer answers the heartbeat is closed by the
\* timeout, and once the coordinator has handled all that was sent to it (or
\* can handle nothing more) the session's id is in neither map.
C17_TimedOutSessionIsUnregistered ==
    \A actor \in Actors :
        (/\ closed_by[actor] = "heartbeat"
         /\ panicked \/ mailbox = <<>>) =>
            Unregistered(session[actor].session_id)

\* C18: a running session that receives a close frame, a protocol error, a
\* binary frame or a continuation frame stops; it does not keep running.
C18_UnexpectedFrameStopsSession ==
    [][(/\ last'.op = "StreamHandler"
        /\ last'.frame \in {"Close", "Err", "Binary", "Continuation"}) =>
          /\ actor_state[last'.actor] = "active"
          /\ actor_state'[last'.actor] = "stopped"]_vars

\* What the coordinator holds under the id of `actor` is that session's: its
\* handle, or a room membership of the id with no handle behind it.
StillRegistered(actor) ==
    LET session_id == session[actor].session_id
    IN  \/ /\ session_id \in DOMAIN recipients_by_session_id
           /\ recipients_by_session_id[session_id] = actor
        \/ /\ session_id \notin DOMAIN recipients_by_session_id
           /\ \E r \in DOMAIN session_ids_by_room_name :
                 session_id \in session_ids_by_room_name[r]

\* The messages a step appended to the coordinator's mailbox.
Appended ==
    {mailbox'[i] : i \in (Len(mailbox) + 1)..Len(mailbox')}

\* C19: whatever stops a session (heartbeat timeout, close frame, protocol
\* error, continuation frame, failed Connect), the step sends Disconnect with
\* the session's id to the coordinator; once the coordinator has handled all
\* it was sent, or can handle nothing more, nothing of a stopped session is
\* left in its maps; and a stopped session stays stopped, takes no step and
\* writes no frame.
C19_StoppedSessionDisconnects ==
    [][\A actor \in Actors :
          /\ (actor_state[actor] # "stopped" /\ actor_state'[actor] = "stopped") =>
                \/ panicked
                \/ [type |-> "Disconnect",
                    session_id |-> session[actor].session_id] \in Appended
          /\ (/\ actor_state'[actor] = "stopped"
              /\ panicked' \/ mailbox' = <<>>) =>
                ~StillRegistered(actor)'
          /\ (actor_state[actor] = "stopped") =>
                /\ actor_state'[actor] = "stopped"
                /\ wrote'[actor] = <<>>
                /\ session'[actor] = session[actor]
                /\ ~(/\ last'.actor = actor
                     /\ last'.op \in {"StreamHandler", "check_heartbeat",
                                      "list_reply", "list_failed",
                                      "WebsocketReplyMessage", "started",
                                      "connect_failed"})]_vars

\* The text is a command the session cannot carry out: a join with no room
\* name, or a verb that is neither list nor join.
Malformed(text) ==
    /\ IsCommand(text)
    /\ \/ Verb(text) = "/join" /\ Len(splitn_2(trim(text))) = 1
       \/ Verb(text) \notin {"/list", "/join"}

\* C20: a malformed command makes the session write one error frame to its
\* own peer and nothing else: nothing is sent to the coordinator, the
\* session's fields and the coordinator's maps stay as they are, and the
\* session keeps running.
C20_MalformedCommandOnlyReportsError ==
    [][(/\ last'.op = "StreamHandler"
        /\ last'.frame = "Text"
        /\ Malformed(last'.text)) =>
          /\ wrote'[last'.actor] =
                <<[frame |-> "text",
                   message |-> Text(
                       IF Verb(last'.text) = "/join"
                       THEN "!!! room name is required"
                       ELSE "!!! unknown command: \""
                                \o to_owned(trim(last'.text)) \o "\"")]>>
          /\ \A a \in Actors \ {last'.actor} : wrote'[a] = <<>>
          /\ mailbox' = mailbox
          /\ session' = session
          /\ recipients_by_session_id' = recipients_by_session_id
          /\ session_ids_by_room_name' = session_ids_by_room_name
          /\ actor_state[last'.actor] = "active"
          /\ actor_state' = actor_state]_vars

\* A session answered a join without a room name, sent with a trailing space,
\* and runs on.
C20_Witness ==
    /\ last.op = "StreamHandler"
    /\ last.text = <<"/", "j", "o", "i", "n", " ">>
    /\ wrote[last.actor] = <<TextFrame(Text("!!! room name is required"))>>
    /\ actor_state[last.actor] = "active"

\* The notifications Join(session_id, room_name) owes to `actor`: one
\* "Someone disconnected" per room the id leaves in which the actor's session
\* remains, then one "Someone connected" when the actor's session is a member
\* of the new room; nothing for the mover itself.
JoinNotifications(recipients, rooms, session_id, room_name, actor) ==
    LET Mine(room) == {s \in rooms[room] \ {session_id} :
                          s \in DOMAIN recipients /\ recipients[s] = actor}
        vacated == {<<r, s>> \in (DOMAIN rooms) \X SessionIds :
                       session_id \in rooms[r] /\ s \in Mine(r)}
        joined == IF room_name \in DOMAIN rooms THEN Mine(room_name) ELSE {}
    IN  [i \in 1..Cardinality(vacated) |-> Text("Someone disconnected")]
        \o [i \in 1..Cardinality(joined) |-> Text("Someone connected")]

\* C21: a Join whose recipients all have an open sink removes the id from
\* every room, notifies every remaining member of each room it left, inserts
\* the id into the new room and notifies every other member of the new room:
\* each registered member gets exactly its notifications, in that order, and
\* the mover gets none.
C21_JoinNotifiesEveryOtherMember ==
    [][(/\ last'.op = "Join"
        /\ \A a \in Actors : ~SinkClosed(a)) =>
          /\ \A a \in Actors :
                last'.sent[a] = JoinNotifications(recipients_by_session_id,
                                    session_ids_by_room_name,
                                    last'.session_id, last'.room_name, a)
          /\ RoomsOf(session_ids_by_room_name', last'.session_id)
                = {last'.room_name}]_vars

\* C22: whenever the coordinator handles a Relay whose sender id is registered,
\* the room the Relay names is a room of the room map whose member set holds
\* that id: the room a session remembers and the room the coordinator records
\* for it agree at relay time.
C22_RelayRoomIsSendersRoom ==
    [][(/\ last'.op = "Relay"
        /\ last'.session_id \in DOMAIN recipients_by_session_id) =>
          /\ last'.room_name \in DOMAIN session_ids_by_room_name
          /\ last'.session_id \in session_ids_by_room_name[last'.room_name]]_vars

\* The snapshot of the playlist state of room `user_id`.
SnapshotOf(state, user_id) ==
    AppStateResponse(IF user_id \in DOMAIN state THEN state[user_id]
                     ELSE default_playlist)

\* The rooms with a Broadcast in the coordinator's queue.
QueuedBroadcasts(queue) ==
    {queue[i].user_id : i \in {j \in 1..Len(queue) : queue[j].type = "Broadcast"}}

\* The running session actors registered under an id that is a member of the
\* room.
MembersOf(recipients, rooms, running, room_name) ==
    IF room_name \notin DOMAIN rooms THEN {}
    ELSE {recipients[id] : id \in rooms[room_name] \cap DOMAIN recipients}
            \cap running

\* C23: the payload of a Broadcast the coordinator handles is the snapshot of
\* the room's playlist as it is when the Broadcast is handled, so never of a
\* state before the mutation that queued it; and whenever no Broadcast of a
\* room is queued, the last snapshot each member of the room with a running
\* session was sent is the snapshot of the room's present playlist.
C23_BroadcastPayloadIsCurrent ==
    [][/\ (last'.op = "Broadcast" /\ last'.payload.kind # "none") =>
              last'.payload = SnapshotOf(app_state', last'.room_name)
       /\ \A room_name \in RoomNames \ QueuedBroadcasts(mailbox') :
             \A member \in MembersOf(recipients_by_session_id',
                               session_ids_by_room_name',
                               {a \in Actors : ~SinkClosed(a)'}, room_name) :
                snapshot'[member].kind # "none" =>
                   snapshot'[member] = SnapshotOf(app_state', room_name)]_vars

\* C24: no step of the coordinator removes a key of the room map, and
\* ListRooms returns every key of the map, so a room that Connect or Join
\* inserted is listed by every later ListRooms, its member set empty or not.
C24_RoomKeysAreNeverRemoved ==
    [][/\ DOMAIN session_ids_by_room_name
             \subseteq DOMAIN session_ids_by_room_name'
       /\ last'.op = "ListRooms" =>
             {last'.room_names[i] : i \in 1..Len(last'.room_names)}
                = DOMAIN session_ids_by_room_name]_vars

\* ListRooms has just listed a room whose member set is empty, its last
\* member removed by a Disconnect that took out its handle.
C24_Witness ==
    /\ last.op = "ListRooms"
    /\ \E i \in 1..Len(last.room_names) :
          session_ids_by_room_name[last.room_names[i]] = {}
    /\ \E a \in Actors :
          /\ actor_state[a] # "unstarted"
          /\ \A id \in DOMAIN recipients_by_session_id :
                recipients_by_session_id[id] # a

\* C25: the coordinator never gets stuck with work to do: whenever a request
\* is queued to it, the coordinator is alive to handle it, whatever the
\* sessions do with what they are enqueued; so, scheduled fairly, it handles
\* every request it was sent.
C25_QueuedRequestIsHandled ==
    mailbox # <<>> => ~panicked

============================================================================
